---- MODULE Spec2Model ----
(***************************************************************************)
(* libkiss hashmap.h: the generalmap engine (open addressing, linear       *)
(* probing, doubling growth) behind hashmap, intmap, hashset and intset.   *)
(*                                                                         *)
(* Pointers are modelled as integers: 0 is the null pointer, a string key  *)
(* is a non-null pointer p whose bytes are Content(p), a value is an       *)
(* opaque void* (0 = NULL).  An integer key is the intptr_t itself.        *)
(***************************************************************************)
EXTENDS Integers, Sequences, FiniteSets, TLC

\* ------------------------------------------------------------------ bounds
\* Integer keys are 0..MaxKey; string keys are the pointers 1..MaxKey+1.
MaxKey == 2
\* Values handed to the map variants are 0..MaxVal (0 is the NULL pointer).
MaxVal == 2
\* Size hints given to XXXInit are 0..MaxHint.
MaxHint == 3
\* Number of mutating calls (Add, Merge) in one run.
MaxOps == 3

Facades == {"hashmap", "intmap", "hashset", "intset"}
IntKeys == 0 .. MaxKey
StrPtrs == 1 .. (MaxKey + 1)
Values == 0 .. MaxVal
Hints == 0 .. MaxHint

\* Marker of the bookkeeping maps for "never added".
Absent == 0 - 1

\* ---------------------------------------------------------- facade bindings
\* cmp argument of the facade: strcmp for the string variants, 0 otherwise.
cmpOf(kind) == kind \in {"hashmap", "hashset"}

\* values argument of the facade: true for maps, false for sets.
valuesOf(kind) == kind \in {"hashmap", "intmap"}

KeysOf(kind) == IF cmpOf(kind) THEN StrPtrs ELSE IntKeys

\* The value argument a facade's Add hands to generalmapAdd.
ValuesOf(kind) == IF valuesOf(kind) THEN Values ELSE {0}

\* ------------------------------------------------------------------ strings
\* The bytes of the string a key pointer refers to (without the terminator):
\* pointer 1 is "", pointers 2 and 3 are two buffers both holding "a",
\* pointer 4 holds "b", pointer 5 "c", ...; pointer p + 100 is a copy of p.
Content(p) ==
    LET q == p % 100
    IN IF q = 1 THEN << >>
       ELSE IF q <= 3 THEN << 97 >>
       ELSE << 97 + (q - 3) >>

RECURSIVE strcmpFrom(_, _, _)
strcmpFrom(a, b, i) ==
    IF i > Len(a) /\ i > Len(b) THEN 0
    ELSE IF i > Len(a) THEN -1
    ELSE IF i > Len(b) THEN 1
    ELSE IF a[i] < b[i] THEN -1
    ELSE IF a[i] > b[i] THEN 1
    ELSE strcmpFrom(a, b, i + 1)

\* strcmp on two non-null strings: 0 for equal contents.
strcmp(p, q) == strcmpFrom(Content(p), Content(q), 1)

\* The least pointer holding the same string: names a string by content.
CanonStr(p) == CHOOSE q \in 1 .. p : Content(q) = Content(p) /\ \A r \in 1 .. (q - 1) : Content(r) # Content(p)

\* The name under which the bookkeeping files a key of a facade.
KeyId(kind, key) == IF cmpOf(kind) THEN CanonStr(key) ELSE key

\* --------------------------------------------------------------- bit tricks
Pow2(n) == 2 ^ n

\* x >> n on a two's complement int (arithmetic shift).
Shr(x, n) == x \div Pow2(n)

RECURSIVE BitXor(_, _)
BitXor(a, b) ==
    IF a = 0 THEN b
    ELSE IF b = 0 THEN a
    ELSE 2 * BitXor(a \div 2, b \div 2) + (((a % 2) + (b % 2)) % 2)

RECURSIVE BitOr(_, _)
BitOr(a, b) ==
    IF a = 0 THEN b
    ELSE IF b = 0 THEN a
    ELSE IF a = -1 \/ b = -1 THEN -1
    ELSE 2 * BitOr(a \div 2, b \div 2) + (IF a % 2 = 1 \/ b % 2 = 1 THEN 1 ELSE 0)

RECURSIVE BitAnd(_, _)
BitAnd(a, b) ==
    IF a = 0 \/ b = 0 THEN 0
    ELSE IF a = -1 THEN b
    ELSE IF b = -1 THEN a
    ELSE 2 * BitAnd(a \div 2, b \div 2) + (IF a % 2 = 1 /\ b % 2 = 1 THEN 1 ELSE 0)

\* ------------------------------------------------------------ hash functions
\* hash += hash << 10; hash ^= hash >> 6;
MixRound(h) ==
    LET h1 == h + h * Pow2(10)
    IN BitXor(h1, Shr(h1, 6))

\* hash += hash << 3; hash ^= hash >> 11; hash += hash << 15; return hash & mask.
\* The keys of the model are small enough that no intptr_t step overflows; the
\* last sum is kept to its low 20 bits, all that a mask below 2^20 can read.
Finish(h, mapsize) ==
    LET h1 == h + h * Pow2(3)
        h2 == BitXor(h1, Shr(h1, 11))
        h3 == (h2 + (h2 % Pow2(5)) * Pow2(15)) % Pow2(20)
    IN BitAnd(h3, mapsize - 1)

RECURSIVE hashstrLoop(_, _, _)
hashstrLoop(bytes, i, hash) ==
    IF i > Len(bytes) THEN hash
    ELSE hashstrLoop(bytes, i + 1, MixRound(hash + bytes[i]))

hashstr(key, mapsize) == Finish(hashstrLoop(Content(key), 1, 0), mapsize)

hashint(element, mapsize) == Finish(MixRound(element), mapsize)

\* hashf argument of the facade.
hashOf(kind, key, mapsize) ==
    IF cmpOf(kind) THEN hashstr(key, mapsize) ELSE hashint(key, mapsize)

\* ---------------------------------------------------------------- generalmap
pow2ize(x) ==
    LET x0 == x - 1
        x1 == BitOr(x0, Shr(x0, 1))
        x2 == BitOr(x1, Shr(x1, 2))
        x3 == BitOr(x2, Shr(x2, 4))
        x4 == BitOr(x3, Shr(x3, 8))
        x5 == BitOr(x4, Shr(x4, 16))
        x6 == BitOr(x5, Shr(Shr(x5, 16), 16))
    IN x6 + 1

\* calloc(n, ...): a zero-filled block of n elements, indexed from 0.
ZeroBlock(n) == [i \in 0 .. (n - 1) |-> 0]

\* The calloc_t a caller can hand to XXXInit: the C library's calloc or an
\* allocator of the caller's own.
Allocators == {"calloc", "custom"}

\* A table: alloc tells which of the three array pointers are non-null, origin
\* (not a field of the struct) which allocator the arrays came from.
generalmapInit(size, calloc, hashes) ==
    LET sz == pow2ize(size)
    IN [size |-> sz,
        elements |-> 0,
        keys |-> ZeroBlock(sz),
        hashes |-> IF hashes THEN ZeroBlock(sz) ELSE << >>,
        values |-> ZeroBlock(sz),
        alloc |-> [keys |-> TRUE, hashes |-> hashes, values |-> TRUE],
        origin |-> calloc]

\* Mutant of generalmapFree: the arrays are released but the three pointers are
\* left as they were (dangling, the memory still readable).
generalmapFreeDangling(map, hashes) == map

generalmapFree(map, hashes) ==
    [map EXCEPT !.keys = << >>, !.hashes = << >>, !.values = << >>,
                !.alloc = [keys |-> FALSE, hashes |-> FALSE, values |-> FALSE]]

mapNull(map) == map.elements = 0

\* Mutant of FreeArgs: the key held by every slot is released as well.
FreeArgsDeep(map, hashes) ==
    (IF map.alloc.keys
     THEN [i \in 1 .. map.size |-> [what |-> "key", ptr |-> map.keys[i - 1]]]
          \o << [what |-> "keys", ptr |-> 0] >>
     ELSE << >>)
    \o (IF hashes /\ map.alloc.hashes THEN << [what |-> "hashes", ptr |-> 0] >> ELSE << >>)
    \o (IF map.alloc.values THEN << [what |-> "values", ptr |-> 0] >> ELSE << >>)

\* The non-null pointers generalmapFree hands to free(), in order (free(0) does
\* nothing): what names the array of the table, ptr is 0 for an array.
FreeArgs(map, hashes) ==
    (IF map.alloc.keys THEN << [what |-> "keys", ptr |-> 0] >> ELSE << >>)
    \o (IF hashes /\ map.alloc.hashes THEN << [what |-> "hashes", ptr |-> 0] >> ELSE << >>)
    \o (IF map.alloc.values THEN << [what |-> "values", ptr |-> 0] >> ELSE << >>)

\* strcmp would be handed a null stored key: undefined behaviour.
IsMatchUB(map, index, key, hash, cmp) ==
    cmp /\ map.hashes[index] = hash /\ map.keys[index] = 0

generalmapIsMatch(map, index, key, hash, cmp) ==
    IF cmp
    THEN map.hashes[index] = hash /\ strcmp(map.keys[index], key) = 0
    ELSE map.keys[index] = key

SetMin(S) == CHOOSE x \in S : \A y \in S : x <= y

generalmapFind(map, key, hash, cmp) ==
    LET stop(i) == map.values[i] = 0 \/ generalmapIsMatch(map, i, key, hash, cmp)
        first == {i \in hash .. (map.size - 1) : stop(i)}
        second == {i \in 0 .. (hash - 1) : stop(i)}
    IN IF first # {} THEN SetMin(first)
       ELSE IF second # {} THEN SetMin(second)
       ELSE hash

\* What a call of generalmapFind can do.  On a table of size 0 the mask is -1 and
\* hash is the unmasked hash: for hash 0 neither loop runs and 0 is returned;
\* otherwise the second loop reads values[0] outside the empty array, and the
\* call crashes, stops there, or runs through and returns hash.
FindOutcomes(map, key, hash, cmp) ==
    IF map.size = 0
    THEN {[index |-> i, ub |-> hash # 0, abort |-> FALSE] : i \in {0, hash}}
         \cup (IF hash # 0 THEN {[index |-> 0, ub |-> TRUE, abort |-> TRUE]} ELSE {})
    ELSE {[index |-> generalmapFind(map, key, hash, cmp), ub |-> FALSE, abort |-> FALSE]}

\* hashf argument: which of the two hash functions the facade binds.
ApplyHash(hashf, key, mapsize) ==
    IF hashf = "hashstr" THEN hashstr(key, mapsize) ELSE hashint(key, mapsize)

\* strdup: another buffer with the same bytes (pointers above 100 are copies).
strdup(key) == key + 100

\* Key pointers holding "a", "b" and "c", and the values stored under them.
ScenarioKeys == {2, 4, 5}
ScenarioValues == 1 .. 3

\* The keys looked up: "a", "b", "c" and "z".
ScenarioLookups == {2, 4, 5, 28}

\* Mutant of NeedsGrow: the comparison made strict, so that a table one
\* insertion short of the threshold is not grown.
NeedsGrowStrict(map) == map.elements * 2 + 1 > map.size

\* Half full: the test that makes generalmapAdd grow the table first.
NeedsGrow(map) == map.elements * 2 + 1 >= map.size

\* Mutant of StoreAt: a key found present has its stored pointer replaced by
\* the pointer of the call.
StoreAtRekey(map, index, key, hash, value, cmp, values) ==
    IF map.values[index] = 0
    THEN [map |-> [map EXCEPT !.keys[index] = key,
                              !.elements = map.elements + 1,
                              !.hashes = IF cmp THEN [map.hashes EXCEPT ![index] = hash]
                                         ELSE map.hashes,
                              !.values[index] = IF values THEN value ELSE 1],
          present |-> FALSE, abort |-> FALSE]
    ELSE IF ~generalmapIsMatch(map, index, key, hash, cmp)
    THEN [map |-> map, present |-> TRUE, abort |-> TRUE]
    ELSE [map |-> [map EXCEPT !.keys[index] = key,
                              !.values[index] = IF values THEN value ELSE 1],
          present |-> TRUE, abort |-> FALSE]

\* The tail of generalmapAdd once the slot is found: an empty slot takes the key
\* (and its hash), an occupied one must hold the key (the assert); then the
\* value, or the set marker (void*) true, is stored.
StoreAt(map, index, key, hash, value, cmp, values) ==
    IF map.values[index] = 0
    THEN [map |-> [map EXCEPT !.keys[index] = key,
                              !.elements = map.elements + 1,
                              !.hashes = IF cmp THEN [map.hashes EXCEPT ![index] = hash]
                                         ELSE map.hashes,
                              !.values[index] = IF values THEN value ELSE 1],
          present |-> FALSE, abort |-> FALSE]
    ELSE IF ~generalmapIsMatch(map, index, key, hash, cmp)
    THEN [map |-> map, present |-> TRUE, abort |-> TRUE]
    ELSE [map |-> [map EXCEPT !.values[index] = IF values THEN value ELSE 1],
          present |-> TRUE, abort |-> FALSE]

\* generalmapAdd after its growth step, with the hash of the key.
InsertHashed(map, key, hash, value, cmp, values) ==
    StoreAt(map, generalmapFind(map, key, hash, cmp), key, hash, value, cmp, values)

\* generalmapAdd after its growth step.
Insert(map, key, value, hashf, cmp, values) ==
    InsertHashed(map, key, ApplyHash(hashf, key, map.size), value, cmp, values)

RECURSIVE generalmapAdd(_, _, _, _, _, _)
RECURSIVE generalmapMergeFrom(_, _, _, _, _, _, _)

\* One round of the loop of generalmapMerge: r is what the Add of slot index did.
MergeStep(r, src, index, hashf, cmp, dup, values) ==
    IF r.abort THEN [map |-> r.map, abort |-> TRUE]
    ELSE generalmapMergeFrom(r.map, src, index + 1, hashf, cmp, dup, values)

\* The loop of generalmapMerge from slot index on; abort: an assert failed.
generalmapMergeFrom(dest, src, index, hashf, cmp, dup, values) ==
    IF index >= src.size THEN [map |-> dest, abort |-> FALSE]
    ELSE IF src.keys[index] = 0
    THEN generalmapMergeFrom(dest, src, index + 1, hashf, cmp, dup, values)
    ELSE MergeStep(generalmapAdd(dest,
                                 IF dup THEN strdup(src.keys[index]) ELSE src.keys[index],
                                 IF values THEN src.values[index] ELSE 0,
                                 hashf, cmp, values),
                   src, index, hashf, cmp, dup, values)

generalmapMerge(dest, src, hashf, cmp, dup, values) ==
    generalmapMergeFrom(dest, src, 0, hashf, cmp, dup, values)

\* Mutant of Grown: the doubled table is installed without the old entries.
GrownEmpty(map, hashf, cmp, values) ==
    IF NeedsGrow(map)
    THEN [map |-> generalmapInit(map.size * 2, "calloc", cmp), abort |-> FALSE]
    ELSE [map |-> map, abort |-> FALSE]

\* The growth step of generalmapAdd: the table the insertion then works on.
Grown(map, hashf, cmp, values) ==
    IF NeedsGrow(map)
    THEN generalmapMerge(generalmapInit(map.size * 2, "calloc", cmp), map, hashf, cmp, FALSE, values)
    ELSE [map |-> map, abort |-> FALSE]

\* The slots of src that the loop of generalmapMerge hands to generalmapAdd, in
\* the order of the loop.
MergedSlots(src) ==
    SelectSeq([n \in 1 .. src.size |-> n - 1], LAMBDA index : src.keys[index] # 0)

\* The steps of the growth of generalmapAdd on map, in program order: the Adds
\* of generalmapMerge (each reads slot index of the old arrays), the calls of
\* free() of generalmapFree, and the assignment *map = newmap.
GrowthSteps(map, hashes) ==
    [n \in 1 .. Len(MergedSlots(map)) |-> [step |-> "add", index |-> MergedSlots(map)[n]]]
    \o [n \in 1 .. Len(FreeArgs(map, hashes)) |->
           [step |-> "free", what |-> FreeArgs(map, hashes)[n].what]]
    \o << [step |-> "install"] >>

\* generalmapAdd, g being the outcome of its growth step.
AddGrown(g, key, value, hashf, cmp, values) ==
    IF g.abort THEN [map |-> g.map, present |-> FALSE, abort |-> TRUE]
    ELSE Insert(g.map, key, value, hashf, cmp, values)

\* Mutant of generalmapAdd: the key is inserted into the table as it is, without
\* the growth step.
generalmapAddInPlace(map, key, value, hashf, cmp, values) ==
    Insert(map, key, value, hashf, cmp, values)

\* Defined for a table whose doubled size is at least 1 (see AddOutcomes).
generalmapAdd(map, key, value, hashf, cmp, values) ==
    AddGrown(Grown(map, hashf, cmp, values), key, value, hashf, cmp, values)

\* What a call of generalmapAdd can do.  On a table of size 0 the doubled table
\* has size 0 too and the probe reads and writes outside the (empty) arrays:
\* the build may crash, or carry on having seen an empty or a matching slot.
AddOutcomes(map, key, value, hashf, cmp, values) ==
    IF map.size = 0
    THEN LET fresh == generalmapInit(0, "calloc", cmp)
         IN {[map |-> map, present |-> FALSE, abort |-> TRUE, ub |-> TRUE],
             [map |-> [fresh EXCEPT !.elements = 1], present |-> FALSE, abort |-> FALSE, ub |-> TRUE],
             [map |-> fresh, present |-> TRUE, abort |-> FALSE, ub |-> TRUE]}
    ELSE LET r == generalmapAdd(map, key, value, hashf, cmp, values)
         IN {[map |-> r.map, present |-> r.present, abort |-> r.abort, ub |-> FALSE]}

\* generalmapInit when every call of calloc returns 0 (out of memory).
generalmapInitFailed(size, hashes) ==
    [size |-> pow2ize(size),
     elements |-> 0,
     keys |-> << >>,
     hashes |-> << >>,
     values |-> << >>,
     alloc |-> [keys |-> FALSE, hashes |-> FALSE, values |-> FALSE],
     origin |-> "calloc"]

\* The growth step of generalmapAdd on a table of size at least 1 when calloc
\* returns 0, up to the first null dereference.  With a slot to copy,
\* generalmapMerge adds it to newmap, whose generalmapFind reads the null
\* values array while *map is still the old table.  With no slot to copy the
\* old arrays are freed, newmap is installed and the generalmapFind of the
\* insertion reads the null values array of the installed table.
GrowthOOM(map, cmp) ==
    LET newmap == generalmapInitFailed(map.size * 2, cmp)
    IN IF \E i \in 0 .. (map.size - 1) : map.keys[i] # 0
       THEN [map |-> map, installed |-> FALSE, nullUsed |-> TRUE, freed |-> << >>]
       ELSE [map |-> newmap, installed |-> TRUE, nullUsed |-> TRUE,
             freed |-> FreeArgs(map, cmp)]

\* What generalmapAdd can do when its growth step runs out of memory: the null
\* dereference kills the process with the table as GrowthOOM left it, or (no
\* memory protection) the call runs on, installs newmap and returns.
AddOOMOutcomes(map, cmp) ==
    LET g == GrowthOOM(map, cmp)
        newmap == generalmapInitFailed(map.size * 2, cmp)
    IN {[map |-> g.map, abort |-> TRUE, installed |-> g.installed,
         nullUsed |-> g.nullUsed, freed |-> g.freed]}
       \cup {[map |-> [newmap EXCEPT !.elements = e], abort |-> FALSE, installed |-> TRUE,
              nullUsed |-> g.nullUsed, freed |-> FreeArgs(map, cmp)]
             : e \in 0 .. (map.elements + 1)}

\* What a call of generalmapMerge can do (see AddOutcomes for size 0).
MergeOutcomes(dest, src, hashf, cmp, dup, values) ==
    IF dest.size = 0 /\ \E i \in 0 .. (src.size - 1) : src.keys[i] # 0
    THEN LET fresh == generalmapInit(0, "calloc", cmp)
         IN {[map |-> dest, abort |-> TRUE, ub |-> TRUE],
             [map |-> [fresh EXCEPT !.elements = 1], abort |-> FALSE, ub |-> TRUE],
             [map |-> fresh, abort |-> FALSE, ub |-> TRUE]}
    ELSE LET r == generalmapMerge(dest, src, hashf, cmp, dup, values)
         IN {[map |-> r.map, abort |-> r.abort, ub |-> FALSE]}

\* generalmapTest; defined when the probe ends without undefined behaviour.
generalmapTest(map, key, hashf, cmp) ==
    LET hash == ApplyHash(hashf, key, map.size)
        index == generalmapFind(map, key, hash, cmp)
    IN generalmapIsMatch(map, index, key, hash, cmp)

\* generalmapMap; defined when the probe ends without undefined behaviour.
generalmapMap(map, key, hashf, cmp) ==
    LET hash == ApplyHash(hashf, key, map.size)
        index == generalmapFind(map, key, hash, cmp)
    IN IF generalmapIsMatch(map, index, key, hash, cmp) THEN map.values[index] ELSE 0

\* The lookup hands strcmp the null key of an empty slot, or (size 0) reads
\* outside the arrays.
LookupUB(map, key, hashf, cmp) ==
    \/ map.size = 0
    \/ LET hash == ApplyHash(hashf, key, map.size)
       IN IsMatchUB(map, generalmapFind(map, key, hash, cmp), key, hash, cmp)

\* The slots generalmapFind looks at for hash, up to and including the one it
\* returns (all of them when it runs through a full table); size >= 1.
ProbedSlots(map, key, hash, cmp) ==
    LET index == generalmapFind(map, key, hash, cmp)
        stopped == map.values[index] = 0 \/ generalmapIsMatch(map, index, key, hash, cmp)
    IN IF ~stopped THEN 0 .. (map.size - 1)
       ELSE {i \in 0 .. (map.size - 1) :
               (i - hash + map.size) % map.size <= (index - hash + map.size) % map.size}

\* The slots whose key a lookup (generalmapMap, generalmapTest) hands to cmp:
\* in generalmapFind the slots probed that are not empty and whose cached hash
\* is hash, and in the closing generalmapIsMatch the slot found if its cached
\* hash is hash (the && keeps cmp from the others); size >= 1.
CmpSlots(map, key, hashf, cmp) ==
    LET hash == ApplyHash(hashf, key, map.size)
        index == generalmapFind(map, key, hash, cmp)
    IN IF ~cmp THEN {}
       ELSE {i \in ProbedSlots(map, key, hash, cmp) :
               map.values[i] # 0 /\ map.hashes[i] = hash}
            \cup (IF map.hashes[index] = hash THEN {index} ELSE {})

\* Mutant of TablesAfterMerge: the merge moves the entries, leaving src with a
\* count of zero.
TablesAfterMergeMoved(dest, src, o) == [dest |-> o.map, src |-> [src EXCEPT !.elements = 0]]

\* The two tables after generalmapMerge(&dest, &src, ...) with outcome o: the
\* function reads *src through a pointer to const and hands dest alone to
\* generalmapAdd, whose growth frees and replaces the arrays of dest.
TablesAfterMerge(dest, src, o) == [dest |-> o.map, src |-> src]

\* What a call of generalmapTest can do: under undefined behaviour a crash or
\* either answer.
TestOutcomes(map, key, hashf, cmp) ==
    IF LookupUB(map, key, hashf, cmp)
    THEN {[ret |-> FALSE, abort |-> TRUE, ub |-> TRUE]}
         \cup {[ret |-> b, abort |-> FALSE, ub |-> TRUE] : b \in BOOLEAN}
    ELSE {[ret |-> generalmapTest(map, key, hashf, cmp), abort |-> FALSE, ub |-> FALSE]}

\* What a call of generalmapMap can do: the slot strcmp is misused on holds a
\* null value, so without a crash the answer is null; a size 0 table yields
\* whatever lies behind the arrays.
MapOutcomes(map, key, hashf, cmp) ==
    IF map.size = 0
    THEN {[ret |-> 0, abort |-> TRUE, ub |-> TRUE]}
         \cup {[ret |-> v, abort |-> FALSE, ub |-> TRUE] : v \in Values}
    ELSE IF LookupUB(map, key, hashf, cmp)
    THEN {[ret |-> 0, abort |-> b, ub |-> TRUE] : b \in BOOLEAN}
    ELSE {[ret |-> generalmapMap(map, key, hashf, cmp), abort |-> FALSE, ub |-> FALSE]}

\* Mutant of DtorCalls: empties recognised by a zero key (as generalmapMerge
\* does) instead of a null value.
RECURSIVE DtorCallsByKey(_, _, _, _)
DtorCallsByKey(map, index, keyDtor, valueDtor) ==
    IF index >= map.size THEN << >>
    ELSE IF map.keys[index] = 0 THEN DtorCallsByKey(map, index + 1, keyDtor, valueDtor)
    ELSE (IF keyDtor
          THEN << [dtor |-> "key", index |-> index, key |-> map.keys[index], value |-> map.values[index]] >>
          ELSE << >>)
         \o (IF valueDtor
             THEN << [dtor |-> "value", index |-> index, key |-> 0, value |-> map.values[index]] >>
             ELSE << >>)
         \o DtorCallsByKey(map, index + 1, keyDtor, valueDtor)

\* The destructor calls of generalmapFreeObjs from slot index on, in order.
RECURSIVE DtorCalls(_, _, _, _)
DtorCalls(map, index, keyDtor, valueDtor) ==
    IF index >= map.size THEN << >>
    ELSE IF map.values[index] = 0 THEN DtorCalls(map, index + 1, keyDtor, valueDtor)
    ELSE (IF keyDtor
          THEN << [dtor |-> "key", index |-> index, key |-> map.keys[index], value |-> map.values[index]] >>
          ELSE << >>)
         \o (IF valueDtor
             THEN << [dtor |-> "value", index |-> index, key |-> 0, value |-> map.values[index]] >>
             ELSE << >>)
         \o DtorCalls(map, index + 1, keyDtor, valueDtor)

generalmapFreeObjs(map, keyDtor, valueDtor, hashes) ==
    [map |-> generalmapFree(map, hashes), calls |-> DtorCalls(map, 0, keyDtor, valueDtor),
     freed |-> FreeArgs(map, hashes)]

\* Mutant of FreeObjsEvents: the arrays are released first, the destructors
\* run afterwards.
FreeObjsEventsFreeFirst(map, keyDtor, valueDtor, hashes) ==
    [n \in 1 .. Len(FreeArgs(map, hashes)) |->
        [event |-> "free", arg |-> FreeArgs(map, hashes)[n]]]
    \o [n \in 1 .. Len(DtorCalls(map, 0, keyDtor, valueDtor)) |->
           [event |-> "dtor", arg |-> DtorCalls(map, 0, keyDtor, valueDtor)[n]]]

\* What generalmapFreeObjs does, in program order: the destructor calls of its
\* loop, then the calls of free() of the closing generalmapFree.
FreeObjsEvents(map, keyDtor, valueDtor, hashes) ==
    [n \in 1 .. Len(DtorCalls(map, 0, keyDtor, valueDtor)) |->
        [event |-> "dtor", arg |-> DtorCalls(map, 0, keyDtor, valueDtor)[n]]]
    \o [n \in 1 .. Len(FreeArgs(map, hashes)) |->
           [event |-> "free", arg |-> FreeArgs(map, hashes)[n]]]

\* ------------------------------------------------------------------ facades
hashfOf(kind) == IF cmpOf(kind) THEN "hashstr" ELSE "hashint"

\* hashmapInit / intmapInit / hashsetInit / intsetInit
XInit(kind, size, calloc) == generalmapInit(size, calloc, cmpOf(kind))

\* hashmapAdd / intmapAdd / hashsetAdd / intsetAdd (sets pass value 0)
XAdd(kind, map, key, value) ==
    AddOutcomes(map, key, IF valuesOf(kind) THEN value ELSE 0, hashfOf(kind), cmpOf(kind), valuesOf(kind))

\* hashmapMerge / intmapMerge / hashsetMerge / intsetMerge, and the MergeDup pair
XMerge(kind, d, s, dup) ==
    MergeOutcomes(d, s, hashfOf(kind), cmpOf(kind), dup, valuesOf(kind))

\* hashmapMap / intmapMap
XMap(kind, map, key) == MapOutcomes(map, key, hashfOf(kind), cmpOf(kind))

\* hashsetTest / intsetTest
XTest(kind, map, key) == TestOutcomes(map, key, hashfOf(kind), cmpOf(kind))

\* The destructor arguments a facade's FreeObjs accepts (TRUE: non-null):
\* hashmap takes both, intmap a value destructor, hashset a key destructor,
\* intset has no FreeObjs.
DtorArgs(kind) ==
    CASE kind = "hashmap" -> BOOLEAN \X BOOLEAN
      [] kind = "intmap" -> {FALSE} \X BOOLEAN
      [] kind = "hashset" -> BOOLEAN \X {FALSE}
      [] OTHER -> {}

\* -------------------------------------------------------------------- vector
\* A vector: length, capacity and buffer are the fields of the struct; buffer is
\* the block the pointer refers to, as a function on 0 .. size-1 (its size is
\* that of the last malloc/realloc, which vectorResize lets differ from
\* capacity).  A cell that was never written holds Uninit.
Uninit == 0 - 1

\* Number of cells of the block behind v.buffer.
BlockSize(v) == Cardinality(DOMAIN v.buffer)

\* malloc(n * sizeof(void*)): n cells of indeterminate content.
MallocBlock(n) == [i \in 0 .. (n - 1) |-> Uninit]

\* realloc(buffer, n * sizeof(void*)): the old content up to the smaller size.
ReallocBlock(buffer, n) ==
    [i \in 0 .. (n - 1) |-> IF i \in DOMAIN buffer THEN buffer[i] ELSE Uninit]

vectorInit(initialCapacity) ==
    LET cap == IF initialCapacity = 0 THEN 1 ELSE initialCapacity
    IN [length |-> 0, capacity |-> cap, buffer |-> MallocBlock(cap)]

\* vectorFind: the first index holding item, or the value of the final return.
vectorFind(v, item) ==
    LET hits == {i \in 0 .. (v.length - 1) : v.buffer[i] = item}
    IN IF hits # {} THEN SetMin(hits) ELSE 0 - 1

vectorResize(v, capacity) ==
    LET buf == IF capacity > v.capacity THEN ReallocBlock(v.buffer, capacity) ELSE v.buffer
    IN [length |-> IF capacity < v.length THEN capacity ELSE v.length,
        capacity |-> capacity,
        buffer |-> buf]

\* v->buffer[n] = value: a write outside the block is undefined behaviour.
StoreCell(v, n, value) ==
    IF n \in DOMAIN v.buffer
    THEN [v |-> [v EXCEPT !.buffer[n] = value], ub |-> FALSE]
    ELSE [v |-> v, ub |-> TRUE]

\* The store and the increment of vectorPusha, on the vector w left by the
\* resize step.
PushStore(w, item) ==
    LET st == StoreCell(w, w.length, item)
    IN [v |-> IF st.ub THEN st.v ELSE [st.v EXCEPT !.length = w.length + 1],
        ret |-> w.length, ub |-> st.ub]

\* The resize step of vectorPusha.
PushResize(v) == IF v.length = v.capacity THEN vectorResize(v, v.capacity * 2) ELSE v

\* vectorPusha / vectorPush
vectorPush(v, item) == PushStore(PushResize(v), item)

vectorPop(v) ==
    IF v.length >= 1
    THEN [v |-> [v EXCEPT !.length = v.length - 1], ret |-> v.buffer[v.length - 1]]
    ELSE [v |-> v, ret |-> 0]

\* vectorSet: ret is "failed".
vectorSet(v, n, value) ==
    IF n < v.length
    THEN LET st == StoreCell(v, n, value)
         IN [v |-> st.v, ret |-> FALSE, ub |-> st.ub]
    ELSE [v |-> v, ret |-> TRUE, ub |-> FALSE]

vectorRemoveReorder(v, n) ==
    IF v.length <= n
    THEN [v |-> v, ret |-> 0, ub |-> FALSE]
    ELSE LET popped == vectorPop(v)
             set == vectorSet(popped.v, n, popped.ret)
         IN [v |-> set.v, ret |-> popped.ret, ub |-> set.ub]

\* The element sizes vectorPushFromArray is called with: sizeof(void*) (8) and a
\* smaller one (4).
ElementSizes == {4, 8}

\* memcpy of a 4 byte element over the low half of a cell (little endian): the
\* high half stays.  The pointers of the model are below 2^32, so the high half
\* of a written cell is zero; that of a cell never written is indeterminate.
WriteLow(old, element) == IF old = Uninit THEN Uninit ELSE element

RECURSIVE CopyCells(_, _, _, _)
\* memcpy(v->buffer + at, array, ...) cell by cell: array is a sequence, k the
\* next element to copy.
CopyCells(v, at, array, k) ==
    IF k > Len(array) THEN [v |-> v, ub |-> FALSE]
    ELSE IF (at + k - 1) \notin DOMAIN v.buffer THEN [v |-> v, ub |-> TRUE]
    ELSE CopyCells([v EXCEPT !.buffer[at + k - 1] = array[k]], at, array, k + 1)

RECURSIVE CopyLow(_, _, _)
\* The loop of vectorPushFromArray for elementSize # sizeof(void*): element i
\* goes to v->buffer + i.
CopyLow(v, array, k) ==
    IF k > Len(array) THEN [v |-> v, ub |-> FALSE]
    ELSE IF (k - 1) \notin DOMAIN v.buffer THEN [v |-> v, ub |-> TRUE]
    ELSE CopyLow([v EXCEPT !.buffer[k - 1] = WriteLow(v.buffer[k - 1], array[k])], array, k + 1)

\* The resize step of vectorPushFromArray.
PushArrayResize(v, length) ==
    IF v.capacity < v.length + length
    THEN vectorResize(v, v.capacity + length * 2)
    ELSE v

\* The copy and the length update of vectorPushFromArray on the resized w.
PushArrayCopy(w, array, elementSize) ==
    LET c == IF elementSize = 8 THEN CopyCells(w, w.length, array, 1)
             ELSE CopyLow(w, array, 1)
    IN [v |-> IF c.ub THEN c.v ELSE [c.v EXCEPT !.length = w.length + Len(array)],
        ub |-> c.ub]

vectorPushFromArray(v, array, elementSize) ==
    PushArrayCopy(PushArrayResize(v, Len(array)), array, elementSize)

\* The vectorMapper of the model.
Mapper(x) == IF x = Uninit THEN Uninit ELSE x + 10

\* The bound of the loop of vectorMap.
MapUpto(dest, src) == IF src.length > dest.capacity THEN dest.capacity ELSE src.length

\* vectorMap(dest, f, src), src passed by value.
vectorMap(dest, src) ==
    LET upto == MapUpto(dest, src)
    IN [length |-> upto,
        capacity |-> dest.capacity,
        buffer |-> [i \in DOMAIN dest.buffer |->
                       IF i < upto THEN Mapper(src.buffer[i]) ELSE dest.buffer[i]]]

\* A vector holding the elements of a sequence (as vectorInitChain makes it).
VectorOf(seq) ==
    [length |-> Len(seq),
     capacity |-> IF Len(seq) = 0 THEN 1 ELSE Len(seq),
     buffer |-> [i \in 0 .. ((IF Len(seq) = 0 THEN 1 ELSE Len(seq)) - 1) |->
                    IF i < Len(seq) THEN seq[i + 1] ELSE Uninit]]

\* The items put into vectors: non-null pointers.
Items == 1 .. MaxVal

\* The arrays handed to vectorPushFromArray and the sources of vectorMap: up to
\* two elements.
Arrays == {<< >>} \cup {<< a >> : a \in Items} \cup {<< a, b >> : a \in Items, b \in Items}

\* ------------------------------------------------------------ state machine
VARIABLES
    vec,      \* the vector
    vlast,    \* the last call on the vector: its arguments, its result, what it started from
    vub,      \* a call on the vector wrote outside its buffer
    vOps,     \* number of calls on the vector so far
    kind,     \* the facade both tables are used through
    dest,     \* the table that is added to, merged into, looked up and freed
    src,      \* a second table of the same facade, the source of merges
    gdest,    \* bookkeeping: key -> the value last stored in dest by Add/Merge, or Absent
    gsrc,     \* the same for src
    nOps,     \* number of Add and Merge calls so far
    last,     \* the last call: its arguments, its result, what it started from
    crashed,  \* the process died (segmentation fault or failed assert)
    allocator, \* the calloc_t handed to XXXInit
    released  \* array name -> how often free() was handed dest's array of that name

vars == << vec, vlast, vub, vOps,
          kind, dest, src, gdest, gsrc, nOps, last, crashed, allocator, released >>

mapVars == << kind, dest, src, gdest, gsrc, nOps, last, crashed, allocator, released >>

\* The vector while the tables are at work: made by vectorInit(1, malloc) and
\* left alone.
VecIdle ==
    /\ vec = vectorInit(1)
    /\ vlast = [op |-> "init"]
    /\ vub = FALSE
    /\ vOps = 0

ArrayNames == {"keys", "hashes", "values"}

\* The release counts after the calls of free() listed in freed.
Released(count, freed) ==
    [a \in ArrayNames |->
        count[a] + Cardinality({n \in 1 .. Len(freed) : freed[n].what = a})]

\* The names a key can be filed under (KeyId): the integer keys, the string
\* pointers and the further pointers of ScenarioKeys.
GKeys == 0 .. (MaxKey + 3)

\* What the map/set is told to hold for a key by an Add of (key, value).
StoredFor(k, value) == IF valuesOf(k) THEN value ELSE 1

Live(map) == map.alloc.values

Init ==
    /\ VecIdle
    /\ kind \in Facades
    /\ allocator \in Allocators
    /\ \E hint \in Hints :
          /\ dest = XInit(kind, hint, allocator)
          /\ src = XInit(kind, hint, allocator)
          /\ last = [op |-> "init", hint |-> hint]
    /\ gdest = [k \in GKeys |-> Absent]
    /\ gsrc = [k \in GKeys |-> Absent]
    /\ nOps = 0
    /\ crashed = FALSE
    /\ released = [a \in ArrayNames |-> 0]

\* XXXAdd(&dest, key, value)
Add(key, value) ==
    /\ ~crashed /\ Live(dest) /\ nOps < MaxOps
    /\ \E o \in XAdd(kind, dest, key, value) :
          /\ crashed' = o.abort
          /\ dest' = o.map
          /\ gdest' = IF o.abort THEN gdest
                      ELSE [gdest EXCEPT ![KeyId(kind, key)] = StoredFor(kind, value)]
          /\ last' = [op |-> "add", key |-> key, value |-> value, present |-> o.present,
                      ub |-> o.ub, abort |-> o.abort,
                      grew |-> NeedsGrow(dest), preElements |-> dest.elements,
                      preSize |-> dest.size,
                      gold |-> gdest[KeyId(kind, key)],
                      mid |-> IF NeedsGrow(dest) /\ dest.size > 0
                              THEN Grown(dest, hashfOf(kind), cmpOf(kind), valuesOf(kind)).map
                              ELSE dest,
                      freed |-> IF NeedsGrow(dest) /\ ~o.abort
                                THEN FreeArgs(dest, cmpOf(kind)) ELSE << >>,
                      steps |-> IF NeedsGrow(dest) /\ dest.size > 0
                                THEN GrowthSteps(dest, cmpOf(kind)) ELSE << >>,
                      pre |-> dest]
    /\ nOps' = nOps + 1
    /\ UNCHANGED << vec, vlast, vub, vOps, kind, src, gsrc, allocator, released >>

\* XXXAdd(&dest, key, value) on a table that has to grow, while calloc returns 0.
AddOOM(key, value) ==
    /\ ~crashed /\ Live(dest) /\ nOps < MaxOps
    /\ dest.size >= 1 /\ NeedsGrow(dest)
    /\ \E o \in AddOOMOutcomes(dest, cmpOf(kind)) :
          /\ crashed' = o.abort
          /\ dest' = o.map
          /\ last' = [op |-> "addoom", key |-> key, value |-> value, abort |-> o.abort,
                      installed |-> o.installed, nullUsed |-> o.nullUsed,
                      freed |-> o.freed, pre |-> dest]
    /\ nOps' = nOps + 1
    /\ UNCHANGED << vec, vlast, vub, vOps, kind, src, gdest, gsrc, allocator, released >>

\* XXXAdd(&src, key, value)
AddSrc(key, value) ==
    /\ ~crashed /\ Live(src) /\ nOps < MaxOps
    /\ \E o \in XAdd(kind, src, key, value) :
          /\ crashed' = o.abort
          /\ src' = o.map
          /\ gsrc' = IF o.abort THEN gsrc
                     ELSE [gsrc EXCEPT ![KeyId(kind, key)] = StoredFor(kind, value)]
          /\ last' = [op |-> "addsrc", ub |-> o.ub, abort |-> o.abort]
    /\ nOps' = nOps + 1
    /\ UNCHANGED << vec, vlast, vub, vOps, kind, dest, gdest, allocator, released >>

\* XXXMerge(&dest, &src), or hashXXXMergeDup when dup
Merge(dup) ==
    /\ ~crashed /\ Live(dest) /\ Live(src) /\ nOps < MaxOps
    /\ dup => cmpOf(kind)
    /\ \E o \in XMerge(kind, dest, src, dup) :
          /\ crashed' = o.abort
          /\ dest' = TablesAfterMerge(dest, src, o).dest
          /\ src' = TablesAfterMerge(dest, src, o).src
          /\ gdest' = IF o.abort THEN gdest
                      ELSE [k \in GKeys |-> IF gsrc[k] # Absent THEN gsrc[k] ELSE gdest[k]]
          /\ last' = [op |-> "merge", dup |-> dup, ub |-> o.ub, abort |-> o.abort,
                      preElements |-> dest.elements, preSize |-> dest.size, gpre |-> gdest,
                      pre |-> dest, presrc |-> src]
    /\ nOps' = nOps + 1
    /\ UNCHANGED << vec, vlast, vub, vOps, kind, gsrc, allocator, released >>

\* hashmapMap / intmapMap (&dest, key)
Map(key) ==
    /\ ~crashed /\ Live(dest) /\ valuesOf(kind)
    /\ \E o \in XMap(kind, dest, key) :
          /\ crashed' = o.abort
          /\ last' = [op |-> "map", key |-> key, ret |-> o.ret, ub |-> o.ub, abort |-> o.abort]
    /\ UNCHANGED << vec, vlast, vub, vOps, kind, dest, src, gdest, gsrc, nOps, allocator, released >>

\* hashsetTest / intsetTest (&dest, key)
Test(key) ==
    /\ ~crashed /\ Live(dest) /\ ~valuesOf(kind)
    /\ \E o \in XTest(kind, dest, key) :
          /\ crashed' = o.abort
          /\ last' = [op |-> "test", key |-> key, ret |-> o.ret, ub |-> o.ub, abort |-> o.abort]
    /\ UNCHANGED << vec, vlast, vub, vOps, kind, dest, src, gdest, gsrc, nOps, allocator, released >>

\* hashmapFreeObjs / intmapFreeObjs / hashsetFreeObjs (&dest, ...)
FreeObjs(keyDtor, valueDtor) ==
    /\ ~crashed /\ Live(dest)
    /\ << keyDtor, valueDtor >> \in DtorArgs(kind)
    /\ LET r == generalmapFreeObjs(dest, keyDtor, valueDtor, cmpOf(kind))
       IN /\ dest' = r.map
          /\ released' = Released(released, r.freed)
          /\ last' = [op |-> "freeobjs", keyDtor |-> keyDtor, valueDtor |-> valueDtor,
                      calls |-> r.calls, freed |-> r.freed, pre |-> dest,
                      events |-> FreeObjsEvents(dest, keyDtor, valueDtor, cmpOf(kind))]
    /\ UNCHANGED << vec, vlast, vub, vOps, kind, src, gdest, gsrc, nOps, crashed, allocator >>

\* XXXFree(&dest): on a table in use or on one freed before; it calls no
\* destructor.
Free ==
    /\ ~crashed
    /\ dest' = generalmapFree(dest, cmpOf(kind))
    /\ released' = Released(released, FreeArgs(dest, cmpOf(kind)))
    /\ last' = [op |-> "free", calls |-> << >>, freed |-> FreeArgs(dest, cmpOf(kind)),
                pre |-> dest]
    /\ UNCHANGED << vec, vlast, vub, vOps, kind, src, gdest, gsrc, nOps, crashed, allocator >>

Next ==
    \/ \E key \in KeysOf(kind), value \in ValuesOf(kind) : Add(key, value)
    \/ \E key \in KeysOf(kind), value \in ValuesOf(kind) : AddSrc(key, value)
    \/ \E dup \in BOOLEAN : Merge(dup)
    \/ \E key \in KeysOf(kind) : Map(key)
    \/ \E key \in KeysOf(kind) : Test(key)
    \/ \E kd \in BOOLEAN, vd \in BOOLEAN : FreeObjs(kd, vd)
    \/ Free

Spec == Init /\ [][Next]_vars

\* The calls that change a table, without the lookups and the teardown.
NextTable ==
    \/ \E key \in KeysOf(kind), value \in ValuesOf(kind) : Add(key, value)
    \/ \E key \in KeysOf(kind), value \in ValuesOf(kind) : AddSrc(key, value)
    \/ \E dup \in BOOLEAN : Merge(dup)

SpecTable == Init /\ [][NextTable]_vars

\* One table on its own: filled by Add, then torn down.
NextAdd ==
    \/ \E key \in KeysOf(kind), value \in ValuesOf(kind) : Add(key, value)
    \/ \E kd \in BOOLEAN, vd \in BOOLEAN : FreeObjs(kd, vd)
    \/ Free

SpecAdd == Init /\ [][NextAdd]_vars

\* One table filled by Add, with calloc able to fail when the table grows.
NextOOM ==
    \/ \E key \in KeysOf(kind), value \in ValuesOf(kind) : Add(key, value)
    \/ \E key \in KeysOf(kind), value \in ValuesOf(kind) : AddOOM(key, value)

SpecOOM == Init /\ [][NextOOM]_vars

\* XXXAdd(&dest, key, value), of which only the outcome is kept in last (as
\* AddSrc does for src).
AddDest(key, value) ==
    /\ ~crashed /\ Live(dest) /\ nOps < MaxOps
    /\ \E o \in XAdd(kind, dest, key, value) :
          /\ crashed' = o.abort
          /\ dest' = o.map
          /\ gdest' = IF o.abort THEN gdest
                      ELSE [gdest EXCEPT ![KeyId(kind, key)] = StoredFor(kind, value)]
          /\ last' = [op |-> "adddest", ub |-> o.ub, abort |-> o.abort]
    /\ nOps' = nOps + 1
    /\ UNCHANGED << vec, vlast, vub, vOps, kind, src, gsrc, allocator, released >>

\* Two string tables (hashmap or hashset) with arrays from the library's
\* calloc, filled by Add, and hashmapMerge / hashsetMerge of the one into the
\* other.
InitShare == Init /\ cmpOf(kind) /\ allocator = "calloc"

NextShare ==
    \/ \E key \in KeysOf(kind), value \in ValuesOf(kind) : AddDest(key, value)
    \/ \E key \in KeysOf(kind), value \in ValuesOf(kind) : AddSrc(key, value)
    \/ Merge(FALSE)

SpecShare == InitShare /\ [][NextShare]_vars

\* A string map made by hashmapInit(3, ...), then Adds of "a", "b", "c" with
\* values 1..3 and lookups of those keys and of "z".
InitScenario ==
    /\ VecIdle
    /\ kind = "hashmap"
    /\ allocator \in Allocators
    /\ dest = XInit(kind, 3, allocator)
    /\ src = XInit(kind, 3, allocator)
    /\ last = [op |-> "init", hint |-> 3]
    /\ gdest = [k \in GKeys |-> Absent]
    /\ gsrc = [k \in GKeys |-> Absent]
    /\ nOps = 0
    /\ crashed = FALSE
    /\ released = [a \in ArrayNames |-> 0]

NextScenario ==
    \/ \E key \in ScenarioKeys, value \in ScenarioValues : Add(key, value)
    \/ \E key \in ScenarioLookups : Map(key)

SpecScenario == InitScenario /\ [][NextScenario]_vars

\* Two string tables as in InitShare, filled by Add, and hashXXXMerge and
\* hashXXXMergeDup of the one into the other.
NextMerge ==
    \/ \E key \in KeysOf(kind), value \in ValuesOf(kind) : AddDest(key, value)
    \/ \E key \in KeysOf(kind), value \in ValuesOf(kind) : AddSrc(key, value)
    \/ \E dup \in BOOLEAN : Merge(dup)

SpecMerge == InitShare /\ [][NextMerge]_vars

\* Two integer keys with the same first-choice slot in a table of capacity 8.
ProbeKeys == {3, 4}

\* intmapAdd(&dest, key, value) with a key of ProbeKeys; one more call than
\* MaxOps is allowed, and only the outcome is kept in last.
ProbeAdd(key, value) ==
    /\ ~crashed /\ Live(dest) /\ nOps < MaxOps + 1
    /\ \E o \in XAdd(kind, dest, key, value) :
          /\ crashed' = o.abort
          /\ dest' = o.map
          /\ gdest' = IF o.abort THEN gdest
                      ELSE [gdest EXCEPT ![KeyId(kind, key)] = StoredFor(kind, value)]
          /\ last' = [op |-> "probeadd", key |-> key, value |-> value,
                      ub |-> o.ub, abort |-> o.abort]
    /\ nOps' = nOps + 1
    /\ UNCHANGED << vec, vlast, vub, vOps, kind, src, gsrc, allocator, released >>

\* An integer map made by intmapInit(8, calloc).
InitProbe ==
    /\ VecIdle
    /\ kind = "intmap"
    /\ allocator = "calloc"
    /\ dest = XInit(kind, 8, allocator)
    /\ src = XInit(kind, 8, allocator)
    /\ last = [op |-> "init", hint |-> 8]
    /\ gdest = [k \in GKeys |-> Absent]
    /\ gsrc = [k \in GKeys |-> Absent]
    /\ nOps = 0
    /\ crashed = FALSE
    /\ released = [a \in ArrayNames |-> 0]

NextProbe == \E key \in ProbeKeys, value \in Values : ProbeAdd(key, value)

\* Adds of colliding keys, with any values, to a table of capacity 8.
SpecProbe == InitProbe /\ [][NextProbe]_vars

\* ------------------------------------------------------------- the vector
\* The tables while the vector is at work: made by intmapInit(1, calloc) and
\* left alone.
MapIdle ==
    /\ kind = "intmap"
    /\ allocator = "calloc"
    /\ dest = XInit(kind, 1, allocator)
    /\ src = XInit(kind, 1, allocator)
    /\ last = [op |-> "init", hint |-> 1]
    /\ gdest = [k \in GKeys |-> Absent]
    /\ gsrc = [k \in GKeys |-> Absent]
    /\ nOps = 0
    /\ crashed = FALSE
    /\ released = [a \in ArrayNames |-> 0]

\* vec = vectorInit(initialCapacity, malloc)
InitVec ==
    /\ MapIdle
    /\ \E initialCapacity \in Hints :
          /\ vec = vectorInit(initialCapacity)
          /\ vlast = [op |-> "init", capacity |-> initialCapacity]
    /\ vub = FALSE
    /\ vOps = 0

\* vectorPush(&vec, item)
VPush(item) ==
    /\ ~vub /\ vOps < MaxOps
    /\ LET o == vectorPush(vec, item)
       IN /\ vec' = o.v
          /\ vub' = o.ub
          /\ vlast' = [op |-> "push", item |-> item, ret |-> o.ret, ub |-> o.ub,
                       resized |-> PushResize(vec), pre |-> vec]
    /\ vOps' = vOps + 1
    /\ UNCHANGED mapVars

\* vectorPop(&vec)
VPop ==
    /\ ~vub /\ vOps < MaxOps
    /\ LET o == vectorPop(vec)
       IN /\ vec' = o.v
          /\ vlast' = [op |-> "pop", ret |-> o.ret, ub |-> FALSE, pre |-> vec]
    /\ vOps' = vOps + 1
    /\ UNCHANGED << vub, mapVars >>

\* vectorResize(&vec, capacity, realloc)
VResize(capacity) ==
    /\ ~vub /\ vOps < MaxOps
    /\ vec' = vectorResize(vec, capacity)
    /\ vlast' = [op |-> "resize", capacity |-> capacity, ub |-> FALSE, pre |-> vec]
    /\ vOps' = vOps + 1
    /\ UNCHANGED << vub, mapVars >>

\* vectorRemoveReorder(&vec, n)
VRemoveReorder(n) ==
    /\ ~vub /\ vOps < MaxOps
    /\ LET o == vectorRemoveReorder(vec, n)
       IN /\ vec' = o.v
          /\ vub' = o.ub
          /\ vlast' = [op |-> "remove", n |-> n, ret |-> o.ret, ub |-> o.ub, pre |-> vec]
    /\ vOps' = vOps + 1
    /\ UNCHANGED mapVars

\* vectorFind(vec, item)
VFind(item) ==
    /\ ~vub /\ vOps < MaxOps
    /\ vlast' = [op |-> "find", item |-> item, ret |-> vectorFind(vec, item),
                 ub |-> FALSE, pre |-> vec]
    /\ vOps' = vOps + 1
    /\ UNCHANGED << vec, vub, mapVars >>

\* vectorPushFromArray(&vec, array, length, elementSize)
VPushFromArray(array, elementSize) ==
    /\ ~vub /\ vOps < MaxOps
    /\ LET o == vectorPushFromArray(vec, array, elementSize)
       IN /\ vec' = o.v
          /\ vub' = o.ub
          /\ vlast' = [op |-> "pusharray", array |-> array, elementSize |-> elementSize,
                       ub |-> o.ub, pre |-> vec]
    /\ vOps' = vOps + 1
    /\ UNCHANGED mapVars

\* vectorMap(&vec, f, source): source is another vector, or vec itself.
VMap(source) ==
    /\ ~vub /\ vOps < MaxOps
    /\ vec' = vectorMap(vec, source)
    /\ vlast' = [op |-> "map", src |-> source, ub |-> FALSE, pre |-> vec]
    /\ vOps' = vOps + 1
    /\ UNCHANGED << vub, mapVars >>

\* The indices vectorRemoveReorder is called with: in and out of bounds on
\* both sides.
RemoveIndices == (0 - 1) .. MaxHint

NextPush ==
    \/ \E item \in Items : VPush(item)
    \/ VPop
    \/ \E capacity \in Hints : VResize(capacity)
    \/ \E n \in RemoveIndices : VRemoveReorder(n)

\* A vector under vectorPush, vectorPop, vectorResize and vectorRemoveReorder.
SpecPush == InitVec /\ [][NextPush]_vars

NextVec ==
    \/ NextPush
    \/ \E item \in Items : VFind(item)
    \/ \E array \in Arrays, elementSize \in ElementSizes : VPushFromArray(array, elementSize)
    \/ \E array \in Arrays : VMap(VectorOf(array))
    \/ VMap(vec)

\* A vector under the whole of its interface.
SpecVec == InitVec /\ [][NextVec]_vars

\* ------------------------------------------------------------------ claims
\* A lookup of key in map can answer v (maps: Map returns v; sets: Test is true).
Found(map, key, v) ==
    IF valuesOf(kind)
    THEN \E o \in XMap(kind, map, key) : ~o.abort /\ o.ret = v
    ELSE \E o \in XTest(kind, map, key) : ~o.abort /\ o.ret

\* A lookup of key in map can answer "absent" (maps: null; sets: false).
NotFound(map, key) ==
    IF valuesOf(kind)
    THEN \E o \in XMap(kind, map, key) : ~o.abort /\ o.ret = 0
    ELSE \E o \in XTest(kind, map, key) : ~o.abort /\ ~o.ret

\* The keys the bookkeeping g holds.
Held(g) == {k \in GKeys : g[k] # Absent}

\* The bookkeeping of dest as it was before the last Add.
GBeforeAdd == [gdest EXCEPT ![KeyId(kind, last.key)] = last.gold]

IsPow2(n) == \E e \in 0 .. 30 : n = Pow2(e)

\* C1: after N Adds with pairwise distinct keys on a fresh table (capacity at
\* least 1), count is N and every added key is found with the value last
\* stored for it.
C1_DistinctAddsCountedAndFound ==
    (last.op = "add" /\ ~last.abort /\ dest.size >= 1 /\ Cardinality(Held(gdest)) = nOps)
    => /\ dest.elements = nOps
       /\ \A key \in KeysOf(kind) :
             gdest[KeyId(kind, key)] # Absent => Found(dest, key, gdest[KeyId(kind, key)])

\* C2: when an Add grows the table, the grown table has the count of the old
\* one and every key added before is found in it with its value.
C2_GrowthKeepsMappings ==
    (last.op = "add" /\ last.grew /\ last.preSize >= 1)
    => /\ last.mid.elements = last.preElements
       /\ \A key \in KeysOf(kind) :
             GBeforeAdd[KeyId(kind, key)] # Absent
             => Found(last.mid, key, GBeforeAdd[KeyId(kind, key)])

\* C3: Test answers true exactly for the keys added since Init, Map answers the
\* value last stored or null for a key never added (lookups that run into
\* undefined behaviour set aside).
C3_LookupAgreesWithHistory ==
    /\ (last.op = "test" /\ ~last.ub)
       => last.ret = (gdest[KeyId(kind, last.key)] # Absent)
    /\ (last.op = "map" /\ ~last.ub)
       => last.ret = (IF gdest[KeyId(kind, last.key)] = Absent THEN 0
                      ELSE gdest[KeyId(kind, last.key)])

\* C4: an Add of a key already added answers alreadyPresent, leaves count as it
\* was and stores the new value.
C4_ReAddOverwrites ==
    (last.op = "add" /\ last.preSize >= 1 /\ last.gold # Absent)
    => /\ ~last.abort
       /\ last.present
       /\ dest.elements = last.preElements
       /\ Found(dest, last.key, StoredFor(kind, last.value))

\* C5 as stated: after every Add, 2*count + 1 < capacity.
C5_LoadStrictlyBelowHalf ==
    (last.op = "add" /\ last.preSize >= 1) => 2 * dest.elements + 1 < dest.size

\* C5 as amended: after every Add on a table of capacity at least 1,
\* 2*count <= capacity (the table is at most half full).
C5_LoadAtMostHalf ==
    (last.op = "add" /\ last.preSize >= 1) => 2 * dest.elements <= dest.size

\* C5 witness: an Add that left a table of capacity 4 exactly half full.
C5_Witness ==
    last.op = "add" /\ last.preSize >= 1 /\ ~last.present
    /\ dest.size = 4 /\ dest.elements = 2

\* C6: the capacity of a table is a power of two (at least 1) after Init and
\* after every Add and Merge.
C6_CapacityPowerOfTwo ==
    (Live(dest) => IsPow2(dest.size)) /\ (Live(src) => IsPow2(src.size))

\* C7: Init(sizeHint) yields the smallest power of two >= max(sizeHint, 1) as
\* capacity, count 0, every slot empty, and a hashes array iff the facade has a
\* comparator.
C7_InitRoundsUp ==
    last.op = "init"
    => /\ IsPow2(dest.size)
       /\ dest.size >= last.hint /\ dest.size >= 1
       /\ \A e \in 0 .. 30 : (Pow2(e) >= last.hint /\ Pow2(e) >= 1) => dest.size <= Pow2(e)
       /\ dest.elements = 0
       /\ \A i \in 0 .. (dest.size - 1) : dest.values[i] = 0 /\ dest.keys[i] = 0
       /\ dest.alloc.hashes = cmpOf(kind)

\* What a lookup of key in map can answer without crashing (maps: the value
\* or null; sets: true or false).
Answers(map, key) ==
    IF valuesOf(kind)
    THEN {o.ret : o \in {x \in XMap(kind, map, key) : ~x.abort}}
    ELSE {o.ret : o \in {x \in XTest(kind, map, key) : ~x.abort}}

\* C8: after Merge(dest, src) of tables with disjoint keys, a lookup of any key
\* in dest answers as the lookup in src did for a key of src, and as the lookup
\* in the old dest did for every other key.
C8_MergeDisjointIsUnion ==
    (last.op = "merge" /\ ~last.abort /\ last.preSize >= 1
        /\ Held(last.gpre) \cap Held(gsrc) = {})
    => \A key \in KeysOf(kind) :
          IF gsrc[KeyId(kind, key)] # Absent
          THEN Answers(dest, key) \cap Answers(src, key) # {}
          ELSE Answers(dest, key) \cap Answers(last.pre, key) # {}

\* C9: after Merge(dest, src), a lookup in dest of a key held by both answers
\* as the lookup in src does, and count has grown by the number of src keys
\* that dest did not hold.
C9_MergeSrcWins ==
    (last.op = "merge" /\ ~last.abort /\ last.preSize >= 1)
    => /\ \A key \in KeysOf(kind) :
             (gsrc[KeyId(kind, key)] # Absent /\ last.gpre[KeyId(kind, key)] # Absent)
             => Answers(dest, key) \cap Answers(src, key) # {}
       /\ dest.elements = last.preElements + Cardinality(Held(gsrc) \ Held(last.gpre))

\* Number of calls in the log made to destructor d for slot i.
CallsTo(calls, d, i) ==
    Cardinality({n \in 1 .. Len(calls) : calls[n].dtor = d /\ calls[n].index = i})

\* C10: FreeObjs calls each supplied destructor exactly once for every occupied
\* slot, with that slot's key and value, never for an empty slot, and never
\* calls a destructor passed as null.
C10_DtorOncePerOccupiedSlot ==
    last.op = "freeobjs"
    => /\ \A i \in 0 .. (last.pre.size - 1) :
             /\ CallsTo(last.calls, "key", i)
                   = (IF last.pre.values[i] # 0 /\ last.keyDtor THEN 1 ELSE 0)
             /\ CallsTo(last.calls, "value", i)
                   = (IF last.pre.values[i] # 0 /\ last.valueDtor THEN 1 ELSE 0)
       /\ \A n \in 1 .. Len(last.calls) :
             /\ last.calls[n].index \in 0 .. (last.pre.size - 1)
             /\ last.calls[n].value = last.pre.values[last.calls[n].index]
             /\ last.calls[n].dtor = "key"
                   => last.calls[n].key = last.pre.keys[last.calls[n].index]

\* C10 witness: both destructors supplied, two occupied slots and an empty one.
C10_Witness ==
    /\ last.op = "freeobjs" /\ last.keyDtor /\ last.valueDtor
    /\ Len(last.calls) = 4
    /\ \E i \in 0 .. (last.pre.size - 1) : last.pre.values[i] = 0

\* C11: over any sequence of Free calls (FreeObjs ends in one) no array of the
\* table is handed to free() twice; after a Free every array the table was given
\* has been released exactly once, free() was handed only arrays the table still
\* held, and the call did not crash.
C11_FreeReleasesOnce ==
    /\ \A a \in ArrayNames : released[a] <= 1
    /\ last.op \in {"free", "freeobjs"}
       => /\ ~crashed
          /\ \A a \in ArrayNames :
                released[a] = (IF a = "hashes" /\ ~cmpOf(kind) THEN 0 ELSE 1)
          /\ \A n \in 1 .. Len(last.freed) :
                last.freed[n].what \in ArrayNames /\ last.pre.alloc[last.freed[n].what]

\* C11 witness: Free called again on a table that held a key and was freed.
C11_Witness ==
    /\ last.op = "free" /\ ~last.pre.alloc.values
    /\ last.pre.size >= 2 /\ last.pre.elements > 0
    /\ last.freed = << >> /\ released["values"] = 1

\* C12: after Free the three array pointers, capacity and count are all zero
\* and mapNull answers true.
C12_FreeZeroesBookkeeping ==
    last.op = "free"
    => /\ ~dest.alloc.keys /\ ~dest.alloc.hashes /\ ~dest.alloc.values
       /\ dest.size = 0
       /\ dest.elements = 0
       /\ mapNull(dest)

\* C13: when calloc fails in the growth step of an Add, the table is left
\* exactly as it was, its arrays are not freed, and no table with null arrays
\* is probed or installed.
C13_GrowthFailureLeavesTable ==
    last.op = "addoom"
    => /\ dest = last.pre
       /\ last.freed = << >>
       /\ ~last.installed
       /\ ~last.nullUsed

\* C14: the arrays a table holds always come from the allocator that was handed
\* to Init, also after the table has grown inside an Add.
C14_ArraysFromInjectedAllocator ==
    (Live(dest) /\ ~crashed /\ dest.size >= 1) => dest.origin = allocator

\* Slot i of map is occupied.
Occupied(map, i) == map.values[i] # 0

\* Slot i of map is occupied by a key with the bytes of key.
HoldsKey(map, i, key) == Occupied(map, i) /\ strcmp(map.keys[i], key) = 0

\* The table map holds, in an occupied slot, a key with the bytes of key.
HoldsSome(map, key) == \E i \in 0 .. (map.size - 1) : HoldsKey(map, i, key)

\* C15 as stated: after a non-duplicating Merge of string tables, for every
\* occupied slot of src, dest has a slot with the very same key pointer and the
\* same value pointer.
C15_MergeSharesEveryKey ==
    (last.op = "merge" /\ ~last.dup /\ cmpOf(kind) /\ ~last.abort /\ last.preSize >= 1)
    => \A i \in 0 .. (src.size - 1) :
          Occupied(src, i)
          => \E j \in 0 .. (dest.size - 1) :
                /\ Occupied(dest, j)
                /\ dest.keys[j] = src.keys[i]
                /\ dest.values[j] = src.values[i]

\* C15 as amended: for every occupied slot of src, dest stores the same value
\* pointer under that key; the key pointer is the one src stores when dest did
\* not hold the key before the Merge, and the one dest already stored when it
\* did.
C15_MergeSharesNewKeys ==
    (last.op = "merge" /\ ~last.dup /\ cmpOf(kind) /\ ~last.abort /\ last.preSize >= 1)
    => \A i \in 0 .. (src.size - 1) :
          Occupied(src, i)
          => \E j \in 0 .. (dest.size - 1) :
                /\ Occupied(dest, j)
                /\ dest.values[j] = src.values[i]
                /\ IF HoldsSome(last.pre, src.keys[i])
                   THEN \E k \in 0 .. (last.pre.size - 1) :
                           HoldsKey(last.pre, k, src.keys[i]) /\ dest.keys[j] = last.pre.keys[k]
                   ELSE dest.keys[j] = src.keys[i]

\* C15 witness: a Merge whose src held a key that dest held under another
\* pointer and with another value: dest kept its pointer and took the value.
C15_Witness ==
    /\ last.op = "merge" /\ ~last.dup /\ cmpOf(kind) /\ ~last.abort /\ last.preSize >= 1
    /\ \E i \in 0 .. (src.size - 1), k \in 0 .. (last.pre.size - 1) :
          /\ Occupied(src, i)
          /\ HoldsKey(last.pre, k, src.keys[i])
          /\ last.pre.keys[k] # src.keys[i]
          /\ last.pre.values[k] # src.values[i]
          /\ \E j \in 0 .. (dest.size - 1) :
                /\ dest.keys[j] = last.pre.keys[k]
                /\ dest.values[j] = src.values[i]

\* C16: Free hands free() nothing but arrays of the table and calls no
\* destructor; the growth inside Add and the Free at the end of FreeObjs
\* likewise release only arrays; FreeObjs reaches keys and values only through
\* a destructor that the caller supplied.
C16_FreeReleasesOnlyArrays ==
    /\ last.op = "free"
       => /\ last.calls = << >>
          /\ \A n \in 1 .. Len(last.freed) : last.freed[n].what \in ArrayNames
    /\ last.op = "add"
       => \A n \in 1 .. Len(last.freed) : last.freed[n].what \in ArrayNames
    /\ last.op = "freeobjs"
       => /\ \A n \in 1 .. Len(last.freed) : last.freed[n].what \in ArrayNames
          /\ \A n \in 1 .. Len(last.calls) :
                /\ last.calls[n].dtor = "key" => last.keyDtor
                /\ last.calls[n].dtor = "value" => last.valueDtor

\* C16 witness: Free of a string map that holds two keys released its three
\* arrays.
C16_Witness ==
    /\ last.op = "free" /\ cmpOf(kind) /\ valuesOf(kind)
    /\ Cardinality({i \in 0 .. (last.pre.size - 1) : last.pre.alloc.values /\ last.pre.values[i] # 0}) = 2
    /\ Len(last.freed) = 3

\* C17: Init(3) gives capacity 4; Add("a",1) then Add("b",2) insert without
\* growth (count 1, then 2, capacity 4); Add("c",3) grows to capacity 8 and
\* leaves count 3; then Lookup answers 1, 2, 3 for "a", "b", "c" and null for
\* "z".
C17_ScenarioTrace ==
    /\ (last.op = "init" /\ last.hint = 3)
       => (dest.size = 4 /\ dest.elements = 0)
    /\ (nOps = 1 /\ last.op = "add" /\ last.key = 2 /\ last.value = 1 /\ last.preSize = 4)
       => (~last.abort /\ ~last.grew /\ ~last.present /\ dest.elements = 1 /\ dest.size = 4)
    /\ (nOps = 2 /\ last.op = "add" /\ last.key = 4 /\ last.value = 2 /\ gdest[2] = 1
           /\ last.preSize = 4 /\ ~last.grew)
       => (~last.abort /\ ~last.present /\ dest.elements = 2 /\ dest.size = 4)
    /\ (nOps = 3 /\ last.op = "add" /\ last.key = 5 /\ last.value = 3 /\ gdest[2] = 1
           /\ gdest[4] = 2 /\ last.preSize = 4)
       => (~last.abort /\ last.grew /\ ~last.present /\ dest.elements = 3 /\ dest.size = 8)
    /\ (nOps = 3 /\ last.op = "map" /\ gdest[2] = 1 /\ gdest[4] = 2 /\ gdest[5] = 3
           /\ dest.size = 8)
       => /\ ~last.ub /\ ~last.abort
          /\ last.ret = (CASE last.key = 2 -> 1 [] last.key = 4 -> 2 [] last.key = 5 -> 3
                            [] OTHER -> 0)

\* C17 witness: the lookup of "z" after the three Adds, in the grown table.
C17_Witness ==
    /\ nOps = 3 /\ last.op = "map" /\ last.key = 28 /\ last.ret = 0
    /\ gdest[2] = 1 /\ gdest[4] = 2 /\ gdest[5] = 3
    /\ dest.size = 8 /\ dest.elements = 3

\* Number of slots of map whose values entry is non-null.
OccupiedSlots(map) == Cardinality({i \in 0 .. (map.size - 1) : map.values[i] # 0})

\* C18: in every state reached by Init, Add and Merge, with any value (null
\* included for the maps), count is the number of slots whose values entry is
\* non-null.
C18_CountIsOccupiedSlots ==
    /\ (Live(dest) /\ ~crashed /\ dest.size >= 1) => dest.elements = OccupiedSlots(dest)
    /\ (Live(src) /\ ~crashed /\ src.size >= 1) => src.elements = OccupiedSlots(src)

\* What generalmapFind can do for key on map, called as the facade calls it.
XFind(map, key) ==
    FindOutcomes(map, key, ApplyHash(hashfOf(kind), key, map.size), cmpOf(kind))

\* C19: for every table made by Init, Add and Merge and every key, Find returns
\* an index in [0, capacity) without reading outside the arrays.
C19_FindIndexInRange ==
    \A key \in KeysOf(kind) :
       /\ (Live(dest) /\ ~crashed)
          => \A o \in XFind(dest, key) :
                ~o.ub /\ ~o.abort /\ o.index \in 0 .. (dest.size - 1)
       /\ (Live(src) /\ ~crashed)
          => \A o \in XFind(src, key) :
                ~o.ub /\ ~o.abort /\ o.index \in 0 .. (src.size - 1)

\* The table has a slot whose values entry is null.
HasEmptySlot(map) == \E i \in 0 .. (map.size - 1) : map.values[i] = 0

\* C20: no table reached through Init, Add and Merge is completely full (Find
\* always has an empty slot to stop at), and no Add, alone or inside a Merge,
\* fails its assertion.
C20_NeverFull ==
    /\ (Live(dest) /\ ~crashed) => HasEmptySlot(dest)
    /\ (Live(src) /\ ~crashed) => HasEmptySlot(src)
    /\ last.op \in {"add", "addsrc", "merge"} => ~last.abort


\* The indices of v that hold item.
IndicesOf(v, item) == {i \in 0 .. (v.length - 1) : v.buffer[i] = item}

\* C21: vectorFind returns the index of the first position holding the item,
\* or 0 if the item is not found in the vector.
C21_FindFirstIndexOrZero ==
    vlast.op = "find" =>
        vlast.ret = IF IndicesOf(vlast.pre, vlast.item) # {}
                    THEN SetMin(IndicesOf(vlast.pre, vlast.item))
                    ELSE 0


\* C22: vectorRemoveReorder(v, n) with n in bounds moves the last element into
\* place n (length one less, the other elements unchanged) and returns that
\* element; with n < 0 or n >= length it returns 0 and leaves the vector
\* unchanged.
C22_RemoveReorderContract ==
    vlast.op = "remove" =>
        LET pre == vlast.pre
            n == vlast.n
            moved == pre.buffer[pre.length - 1]
        IN IF 0 <= n /\ n < pre.length
           THEN /\ ~vlast.ub
                /\ vlast.ret = moved
                /\ vec.length = pre.length - 1
                /\ \A i \in 0 .. (vec.length - 1) :
                      vec.buffer[i] = IF i = n THEN moved ELSE pre.buffer[i]
           ELSE /\ ~vlast.ub
                /\ vlast.ret = 0
                /\ vec = pre


\* The elements of v, first to last.
Elements(v) == [i \in 1 .. v.length |-> v.buffer[i - 1]]

\* C23: vectorPushFromArray(v, array, length, elementSize) appends the array's
\* elements in order for every elementSize: the length grows by length, the old
\* elements keep their indices and the new ones follow them.
C23_PushFromArrayAppends ==
    vlast.op = "pusharray" =>
        /\ ~vlast.ub
        /\ Elements(vec) = Elements(vlast.pre) \o vlast.array


\* The smaller of two numbers.
Min(a, b) == IF a < b THEN a ELSE b

\* C24: vectorMap(dest, f, src) sets dest[n] to f(src[n]) for exactly the
\* indices n below min(dest.length, src.length), and touches no other element.
C24_MapUpToShorterLength ==
    vlast.op = "map" =>
        LET pre == vlast.pre
            upto == Min(pre.length, vlast.src.length)
        IN /\ vec.length = pre.length
           /\ \A n \in DOMAIN pre.buffer :
                 vec.buffer[n] = IF n < upto THEN Mapper(vlast.src.buffer[n])
                                 ELSE pre.buffer[n]


\* C25: vectorPush on any vector reachable through vectorInit, vectorPush,
\* vectorPop, vectorResize and vectorRemoveReorder stores the item at index old
\* length inside the buffer, returns that index, adds one to the length and
\* leaves the earlier elements unchanged.
C25_PushAppendsInsideBuffer ==
    vlast.op = "push" =>
        /\ ~vlast.ub
        /\ vlast.ret = vlast.pre.length
        /\ vlast.pre.length < BlockSize(vec)
        /\ Elements(vec) = Append(Elements(vlast.pre), vlast.item)


\* C26: Add grows the table exactly when 2*count + 1 >= capacity at call time,
\* whether or not the key is already present, and a growing Add doubles the
\* capacity exactly once (re-inserting the old entries causes no further
\* growth): the capacity after an Add is twice the one before if the test held
\* and unchanged otherwise.
C26_GrowsOnceWhenHalfFull ==
    last.op = "add" =>
        dest.size = IF 2 * last.preElements + 1 >= last.preSize
                    THEN 2 * last.preSize
                    ELSE last.preSize

\* An Add of a key already present to a half-full table of capacity 2 or more
\* has doubled it.
C26_Witness ==
    /\ last.op = "add" /\ last.present /\ ~last.abort
    /\ last.preSize >= 2
    /\ 2 * last.preElements + 1 >= last.preSize
    /\ dest.size = 2 * last.preSize


\* The positions of the growth steps of the last Add that call free().
FreeSteps == {n \in 1 .. Len(last.steps) : last.steps[n].step = "free"}

\* C27: during growth the old arrays are released only after every occupied
\* entry of the old table has been re-inserted into the new one, the new table
\* is installed only after the release, and no step reads the old arrays after
\* they were released.
C27_ReleaseAfterReinsertion ==
    (last.op = "add" /\ last.grew /\ last.preSize >= 1) =>
        /\ \A index \in 0 .. (last.preSize - 1) :
              Occupied(last.pre, index) =>
                 \E n \in 1 .. Len(last.steps) :
                    /\ last.steps[n] = [step |-> "add", index |-> index]
                    /\ \A f \in FreeSteps : n < f
        /\ \A n \in 1 .. Len(last.steps) :
              last.steps[n].step = "install" => \A f \in FreeSteps : f < n
        /\ \A n \in 1 .. Len(last.steps) :
              last.steps[n].step = "add" => \A f \in FreeSteps : n < f


\* The keys a and b are equal to the table: identical integers, or strings of
\* equal content.
SameKey(a, b) == IF cmpOf(kind) THEN strcmp(a, b) = 0 ELSE a = b

\* Some occupied slot of map holds key.
KeyIn(map, key) ==
    \E i \in 0 .. (map.size - 1) : Occupied(map, i) /\ SameKey(map.keys[i], key)

\* The first-choice slot of key in map.
StartSlot(map, key) == ApplyHash(hashfOf(kind), key, map.size)

\* The number of steps from slot a forward, with wraparound, to slot b.
Steps(map, a, b) == (b - a + map.size) % map.size

\* The first empty slot of map at or cyclically after slot start.
FirstEmptyFrom(map, start) ==
    CHOOSE i \in 0 .. (map.size - 1) :
       /\ ~Occupied(map, i)
       /\ \A j \in 0 .. (map.size - 1) :
             Steps(map, start, j) < Steps(map, start, i) => Occupied(map, j)

\* The keys looked up: those of the facade and the colliding ones.
LookupKeys == KeysOf(kind) \cup (IF cmpOf(kind) THEN {} ELSE ProbeKeys)

\* C28: Find probes from the key's first-choice slot with wraparound and returns
\* the slot holding the key if the key is in the table, otherwise the first
\* empty slot at or cyclically after the first-choice slot.
C28_FindReturnsKeySlot ==
    (Live(dest) /\ ~crashed) =>
        \A key \in LookupKeys :
           \A o \in XFind(dest, key) :
              /\ ~o.ub /\ ~o.abort
              /\ o.index \in 0 .. (dest.size - 1)
              /\ IF KeyIn(dest, key)
                 THEN Occupied(dest, o.index) /\ SameKey(dest.keys[o.index], key)
                 ELSE HasEmptySlot(dest)
                      => o.index = FirstEmptyFrom(dest, StartSlot(dest, key))


\* Every slot of map on the cyclic path from the first-choice slot of the key
\* held by slot i up to slot i is occupied.
ChainUnbroken(map, i) ==
    \A j \in 0 .. (map.size - 1) :
       Steps(map, StartSlot(map, map.keys[i]), j) <= Steps(map, StartSlot(map, map.keys[i]), i)
       => Occupied(map, j)

\* C29: in every table reachable by Init, Add and Merge, with any keys and any
\* values, every slot on the cyclic path from the first-choice slot of a stored
\* key to the occupied slot that holds it is occupied.
C29_ProbeChainUnbroken ==
    /\ (Live(dest) /\ ~crashed) =>
          \A i \in 0 .. (dest.size - 1) : Occupied(dest, i) => ChainUnbroken(dest, i)
    /\ (Live(src) /\ ~crashed) =>
          \A i \in 0 .. (src.size - 1) : Occupied(src, i) => ChainUnbroken(src, i)

\* C30: in every table reachable by Init, Add and Merge, with any keys and any
\* values, no two occupied slots hold equal keys.
C30_KeysUnique ==
    /\ (Live(dest) /\ ~crashed) =>
          \A i, j \in 0 .. (dest.size - 1) :
             (i # j /\ Occupied(dest, i) /\ Occupied(dest, j))
             => ~SameKey(dest.keys[i], dest.keys[j])
    /\ (Live(src) /\ ~crashed) =>
          \A i, j \in 0 .. (src.size - 1) :
             (i # j /\ Occupied(src, i) /\ Occupied(src, j))
             => ~SameKey(src.keys[i], src.keys[j])


\* C31: Map and Test on a string-keyed table hand the comparator only keys of
\* occupied slots, never the (null) key of an empty slot: for every key and
\* every reachable table of capacity 1 or more.
C31_ComparatorOnlyOnOccupied ==
    (cmpOf(kind) /\ Live(dest) /\ ~crashed /\ dest.size >= 1) =>
        \A key \in KeysOf(kind) :
           \A i \in CmpSlots(dest, key, hashfOf(kind), cmpOf(kind)) : Occupied(dest, i)


\* The key pointers stored in map (null pointers left out).
StoredKeys(map) == {map.keys[i] : i \in 0 .. (map.size - 1)} \ {0}

\* The copies the duplicate function makes during a duplicating Merge of from:
\* one for every slot of from with a key.
CopiesMade(from) == {strdup(key) : key \in StoredKeys(from)}

\* C32: after a duplicating Merge every key copy made by the duplicate function
\* is stored in dest, also when dest held an equal key before.
C32_EveryCopyStored ==
    (last.op = "merge" /\ last.dup /\ ~last.abort /\ last.preSize >= 1)
    => CopiesMade(src) \subseteq StoredKeys(dest)


\* C33: a Merge into a distinct table leaves src as it was: capacity, count,
\* keys, cached hashes and values, also when dest grows during the merge (the
\* merges that run into undefined behaviour on a capacity-0 dest set aside).
C33_MergeLeavesSrc ==
    (last.op = "merge" /\ ~last.ub /\ ~last.abort) => src = last.presrc

\* A Merge of a non-empty src has grown dest.
C33_Witness ==
    /\ last.op = "merge" /\ ~last.ub /\ ~last.abort
    /\ last.preSize >= 1 /\ dest.size > last.preSize
    /\ last.presrc.elements >= 1
    /\ \E i \in 0 .. (src.size - 1) : Occupied(src, i)


\* The positions in the events of the last FreeObjs at which destructor dtor is
\* called for slot index.
DtorAt(dtor, index) ==
    {n \in 1 .. Len(last.events) :
        /\ last.events[n].event = "dtor"
        /\ last.events[n].arg.dtor = dtor
        /\ last.events[n].arg.index = index}

\* C34: in FreeObjs the key destructor of an occupied slot, which receives the
\* slot's value, is invoked before the value destructor of that slot, and every
\* destructor invocation happens before the arrays of the table are released.
C34_KeyDtorFirstThenRelease ==
    last.op = "freeobjs" =>
        /\ \A index \in 0 .. (last.pre.size - 1) :
              (Occupied(last.pre, index) /\ last.keyDtor /\ last.valueDtor) =>
                 /\ DtorAt("key", index) # {} /\ DtorAt("value", index) # {}
                 /\ \A k \in DtorAt("key", index) :
                       /\ last.events[k].arg.value = last.pre.values[index]
                       /\ \A v \in DtorAt("value", index) : k < v
        /\ \A n, m \in 1 .. Len(last.events) :
              (last.events[n].event = "dtor" /\ last.events[m].event = "free") => n < m

\* A FreeObjs with both destructors on a table of capacity 2 or more with an
\* occupied slot: destructor calls and releases both happened.
C34_Witness ==
    /\ last.op = "freeobjs" /\ last.keyDtor /\ last.valueDtor
    /\ last.pre.size >= 2
    /\ \E index \in 0 .. (last.pre.size - 1) :
          Occupied(last.pre, index) /\ DtorAt("key", index) # {} /\ DtorAt("value", index) # {}
    /\ \E m \in 1 .. Len(last.events) : last.events[m].event = "free"

====
